---- MODULE Spec2Model ----
(***************************************************************************)
(* Road geometry validator: RoadLine (alignment), GeometryIdealizer,       *)
(* ComparisonEngine and ValidationReport of dxf_checker.                   *)
(*                                                                         *)
(* Numbers.  The program computes in floating point metres.  The model     *)
(* computes in fixed point: lengths, coordinates and stations are integer  *)
(* millimetres, curvatures are integer multiples of 1e-6 1/m.  A square    *)
(* root is the floor of the real root, so that a comparison of a length    *)
(* with a whole number of millimetres (>=, <) is decided as on the reals.  *)
(* Indices are the program's 0-based indices; a TLA+ sequence is accessed  *)
(* at index + 1.                                                           *)
(***************************************************************************)
EXTENDS Integers, Sequences, FiniteSets, TLC

VARIABLES
    road_line,   \* the RoadLine an operation is called on (compare: original)
    ideal,       \* the second RoadLine handed to ComparisonEngine.compare
    idealizer,   \* GeometryIdealizer: mode, thresholds, constraints
    engine,      \* ComparisonEngine: station_step, deadbands, constraints
    report,      \* ValidationReport under inspection (NoReport: none)
    pc,          \* "ready": no call made yet; "returned": a call has returned
    op,          \* name of the operation that was called
    arg,         \* its argument
    ret          \* what it returned, or the exception it raised

vars == <<road_line, ideal, idealizer, engine, report, pc, op, arg, ret>>

----------------------------------------------------------------------------
(* Arithmetic helpers                                                      *)

Abs(x) == IF x < 0 THEN -x ELSE x

Max(a, b) == IF a >= b THEN a ELSE b

Min(a, b) == IF a <= b THEN a ELSE b

Sign(x) == IF x < 0 THEN -1 ELSE IF x > 0 THEN 1 ELSE 0

\* floor(a / b + 1/2) for b > 0: the division of two reals, to the nearest unit
RoundDiv(a, b) == (2 * a + b) \div (2 * b)

\* <<carry, (r + a) mod c>> for 0 <= r, a < c, without forming r + a
AddMod(r, a, c) == IF r >= c - a THEN <<1, r - (c - a)>> ELSE <<0, r + a>>

RECURSIVE MulQR(_, _, _)
\* <<q, r>> with a * b = q * c + r and 0 <= r < c, for 0 <= a < c, b >= 0,
\* by doubling, so that no intermediate exceeds c
MulQR(a, b, c) ==
    IF b = 0 THEN <<0, 0>>
    ELSE LET h == MulQR(a, b \div 2, c)
             d == AddMod(h[2], h[2], c)
             e == IF b % 2 = 1 THEN AddMod(d[2], a, c) ELSE <<0, d[2]>>
         IN  <<2 * h[1] + d[1] + e[1], e[2]>>

\* floor(a * b / c) for a, b >= 0 and c > 0, without forming a * b
MulDiv(a, b, c) == (a \div c) * b + MulQR(a % c, b, c)[1]

\* <<q, r>> or, for a negative product, the floor quotient and remainder
\* of -(q * c + r)
signed_quotient(sgn, q, r, c) ==
    IF sgn >= 0 THEN <<q, r>>
    ELSE IF r = 0 THEN <<-q, 0>>
    ELSE <<-q - 1, c - r>>

\* MulFloor from h = MulQR(|a| mod c, |b|, c)
mul_floor_from(a, b, c, h) ==
    signed_quotient(Sign(a) * Sign(b), (Abs(a) \div c) * Abs(b) + h[1], h[2], c)

\* <<q, r>> with a * b = q * c + r and 0 <= r < c, for c > 0 and a, b of
\* either sign, without forming a * b
MulFloor(a, b, c) == mul_floor_from(a, b, c, MulQR(Abs(a) % c, Abs(b), c))

\* rd / det to the nearest unit for -det < rd < det, a tie upwards
nearest_unit(rd, det) ==
    IF rd >= 0 THEN (IF rd >= det - rd THEN 1 ELSE 0)
    ELSE (IF -rd > det + rd THEN -1 ELSE 0)

\* DiffQuot from the quotients and remainders x of a * b and y of c * d
diff_quot_from(x, y, det) == (x[1] - y[1]) + nearest_unit(x[2] - y[2], det)

\* (a * b - c * d) / det to the nearest unit, for det > 0, from the two
\* quotients and remainders by det
DiffQuot(a, b, c, d, det) ==
    diff_quot_from(MulFloor(a, b, det), MulFloor(c, d, det), det)

RECURSIVE SqrtIter(_, _, _)
SqrtIter(n, lo, hi) ==
    IF hi - lo <= 1 THEN lo
    ELSE LET mid == (lo + hi) \div 2
         IN  IF mid * mid <= n THEN SqrtIter(n, mid, hi)
                               ELSE SqrtIter(n, lo, mid)

\* floor of the square root of n >= 0
Isqrt(n) == SqrtIter(n, 0, 46341)

\* the least whole number not below the square root of n
IsqrtUp(n) == LET r == Isqrt(n) IN IF r * r = n THEN r ELSE r + 1

RECURSIVE SumSeq(_)
\* sum(s)
SumSeq(s) == IF Len(s) = 0 THEN 0 ELSE Head(s) + SumSeq(Tail(s))

\* a list built by a comprehension or a loop, held as a tuple of its items
AsList(f) == f \o << >>

\* x <= y for quotient-remainder pairs of one divisor
pair_leq(x, y) == x[1] < y[1] \/ (x[1] = y[1] /\ x[2] <= y[2])

\* a * b <= c * d for a, b, c, d in 0..2^30, without forming the products
WideLeq(a, b, c, d) ==
    pair_leq(MulFloor(a, b, 1073741824), MulFloor(c, d, 1073741824))

RECURSIVE WideHypotIter(_, _, _, _)
\* the greatest r in lo..(hi - 1) with r * r <= ax * ax + ay * ay, for
\* 0 <= ay <= ax <= lo
WideHypotIter(ax, ay, lo, hi) ==
    IF hi - lo <= 1 THEN lo
    ELSE IF WideLeq(lo + (hi - lo) \div 2 - ax, lo + (hi - lo) \div 2 + ax, ay, ay)
         THEN WideHypotIter(ax, ay, lo + (hi - lo) \div 2, hi)
         ELSE WideHypotIter(ax, ay, lo, lo + (hi - lo) \div 2)

\* math.hypot(dx, dy): the floor of the root, by the squares when they fit
\* in 32 bits and by bisection when they do not
Hypot(dx, dy) ==
    IF Abs(dx) <= 32767 /\ Abs(dy) <= 32767 THEN Isqrt(dx * dx + dy * dy)
    ELSE WideHypotIter(Max(Abs(dx), Abs(dy)), Min(Abs(dx), Abs(dy)),
                       Max(Abs(dx), Abs(dy)), Abs(dx) + Abs(dy) + 1)

Last(s) == s[Len(s)]

----------------------------------------------------------------------------
(* RoadLine                                                                *)

NoMeta == [k \in {} |-> TRUE]

\* {**meta, key: val}
MetaWith(meta, key, val) ==
    [k \in (DOMAIN meta) \cup {key} |-> IF k = key THEN val ELSE meta[k]]

\* RoadLine(vertices, meta): a new object
RoadLine(vertices, meta) == [id |-> "new", vertices |-> vertices, meta |-> meta]

\* distance_3d(p1, p2)
distance_3d(p1, p2) ==
    Isqrt((p1[1] - p2[1]) * (p1[1] - p2[1])
        + (p1[2] - p2[2]) * (p1[2] - p2[2])
        + (p1[3] - p2[3]) * (p1[3] - p2[3]))

\* stations with s.append(math.hypot(dx, dy)): the running sum is dropped
stations_not_cumulative(v) ==
    LET n == Max(Len(v), 1)
    IN  AsList([i \in 1..n |->
                   IF i = 1 THEN 0
                   ELSE Hypot(v[i][1] - v[i - 1][1], v[i][2] - v[i - 1][2])])

RECURSIVE stations_loop(_, _, _)
\* the for loop of stations from the pair (v[i - 1], v[i]) on, s the list
\* built so far
stations_loop(v, i, s) ==
    IF i > Len(v) THEN s
    ELSE stations_loop(v, i + 1,
             Append(s, Last(s) + Hypot(v[i][1] - v[i - 1][1], v[i][2] - v[i - 1][2])))

\* RoadLine.stations: cumulative 2D length; zip() of an empty or one-vertex
\* list is empty, so the result is [0.0] there
stations(v) == stations_loop(v, 2, <<0>>)

\* RoadLine._interp_xyz(a, b, t) with t = num / den (t = 0.0 when den = 0)
_interp_xyz(a, b, num, den) ==
    IF den = 0 THEN a
    ELSE <<a[1] + RoundDiv((b[1] - a[1]) * num, den),
           a[2] + RoundDiv((b[2] - a[2]) * num, den),
           a[3] + RoundDiv((b[3] - a[3]) * num, den)>>

RECURSIVE find_segment_strict(_, _, _, _)
\* find_segment that moves lo only past stations below the station sought
find_segment_strict(S, station, lo, hi) ==
    IF lo < hi - 1
    THEN LET mid == (lo + hi) \div 2
         IN  IF S[mid + 1] < station THEN find_segment_strict(S, station, mid, hi)
                                     ELSE find_segment_strict(S, station, lo, mid)
    ELSE lo

RECURSIVE find_segment(_, _, _, _)
\* the while loop of sample_xy_at_station: the final lo (0-based)
find_segment(S, station, lo, hi) ==
    IF lo < hi - 1
    THEN LET mid == (lo + hi) \div 2
         IN  IF S[mid + 1] <= station THEN find_segment(S, station, mid, hi)
                                      ELSE find_segment(S, station, lo, mid)
    ELSE lo

\* RoadLine.sample_xy_at_station on a line with at least one vertex
sample_xy_at_station(v, station) ==
    LET S == stations(v)
    IN  IF station <= 0 THEN v[1]
        ELSE IF station >= Last(S) THEN Last(v)
        ELSE LET lo      == find_segment(S, station, 0, Len(S) - 1)
                 seg_len == S[lo + 2] - S[lo + 1]
             IN  _interp_xyz(v[lo + 1], v[lo + 2], station - S[lo + 1], seg_len)

\* resample_points without the replacement of the last sample
resample_points_unforced(v, step) ==
    LET L == Last(stations(v))
        n == Max(1, L \div step)
    IN  AsList([i \in 1..(n + 1) |-> sample_xy_at_station(v, (i - 1) * step)])

\* resample_points with n = floor(L / step)
resample_points_floor(v, step) ==
    LET L   == Last(stations(v))
        n   == L \div step
        pts == AsList([i \in 1..(n + 1) |-> sample_xy_at_station(v, (i - 1) * step)])
    IN  IF pts[n + 1] # Last(v)
        THEN AsList([i \in 1..(n + 1) |-> IF i = n + 1 THEN Last(v) ELSE pts[i]])
        ELSE pts

\* the list comprehension and the forced end point of resample_by_station
resample_points(v, step) ==
    LET L   == Last(stations(v))
        n   == Max(1, L \div step)
        pts == AsList([i \in 1..(n + 1) |-> sample_xy_at_station(v, (i - 1) * step)])
    IN  IF pts[n + 1] # Last(v)
        THEN AsList([i \in 1..(n + 1) |-> IF i = n + 1 THEN Last(v) ELSE pts[i]])
        ELSE pts

\* RoadLine.resample_by_station(step), step > 0
resample_by_station(line, step) ==
    IF Last(stations(line.vertices)) <= 0 THEN line
    ELSE RoadLine(resample_points(line.vertices, step),
                  MetaWith(line.meta, "resampled_step", step))

\* RoadLine.length: the sum of the 3D lengths of the segments
length(v) == SumSeq([i \in 1..(Len(v) - 1) |-> distance_3d(v[i], v[i + 1])])

\* the square of the 3D distance of two points
distance_sq(p1, p2) ==
    (p1[1] - p2[1]) * (p1[1] - p2[1])
  + (p1[2] - p2[2]) * (p1[2] - p2[2])
  + (p1[3] - p2[3]) * (p1[3] - p2[3])

\* n = int(math.ceil(d / max_len)) for d the distance of p1 and p2
pieces(p1, p2, max_len) == (IsqrtUp(distance_sq(p1, p2)) + max_len - 1) \div max_len

\* the points split_by_max_length appends for the pair (p1, p2): the
\* n - 1 points at t = k / n when d > max_len, then p2
split_pair(p1, p2, max_len) ==
    IF distance_sq(p1, p2) > max_len * max_len
    THEN AsList([k \in 1..(pieces(p1, p2, max_len) - 1) |->
                    _interp_xyz(p1, p2, k, pieces(p1, p2, max_len))]) \o <<p2>>
    ELSE <<p2>>

RECURSIVE split_loop(_, _, _, _)
\* the for loop of split_by_max_length from the pair (v[i], v[i + 1]) on
split_loop(v, max_len, i, new_pts) ==
    IF i > Len(v) - 1 THEN new_pts
    ELSE split_loop(v, max_len, i + 1, new_pts \o split_pair(v[i], v[i + 1], max_len))

\* RoadLine.split_by_max_length(max_len) on a line with at least one vertex
split_by_max_length(line, max_len) ==
    RoadLine(split_loop(line.vertices, max_len, 1, <<line.vertices[1]>>), line.meta)

\* 2.0 * cross / denom of three XY points, in 1e-6 1/m; 0 when the
\* denominator is (below 1e-12, hence) zero
menger(p1, p2, p3) ==
    LET ax    == p2[1] - p1[1]
        ay    == p2[2] - p1[2]
        bx    == p3[1] - p2[1]
        by    == p3[2] - p2[2]
        cross == ax * by - ay * bx
        denom == Hypot(ax, ay) * Hypot(bx, by) * Hypot(p3[1] - p1[1], p3[2] - p1[2])
    IN  IF denom <= 0 THEN 0
        ELSE Sign(cross) * MulDiv(2 * Abs(cross), 1000000000, denom)

\* RoadLine.curvature_at(i), i 0-based
curvature_at(v, i) ==
    IF i <= 0 \/ i >= Len(v) - 1 THEN 0
    ELSE menger(v[i], v[i + 1], v[i + 2])

RECURSIVE segment_loop_strict(_, _, _, _, _, _)
\* segment_loop that takes a vertex for a curve only above the threshold
segment_loop_strict(v, k_threshold, i, start, mode, kinds) ==
    IF i > Len(v) - 2
    THEN <<kinds, start, mode>>
    ELSE LET k == Abs(curvature_at(v, i))
             m == IF k > k_threshold THEN "curve" ELSE "tangent"
         IN  IF m # mode
             THEN segment_loop_strict(v, k_threshold, i + 1, i, m,
                                      Append(kinds, <<start, i, mode>>))
             ELSE segment_loop_strict(v, k_threshold, i + 1, start, mode, kinds)

RECURSIVE segment_loop(_, _, _, _, _, _)
\* the for loop of segment_by_curvature from index i on: <<kinds, start, mode>>
\* as the loop leaves them
segment_loop(v, k_threshold, i, start, mode, kinds) ==
    IF i > Len(v) - 2
    THEN <<kinds, start, mode>>
    ELSE LET k == Abs(curvature_at(v, i))
             m == IF k >= k_threshold THEN "curve" ELSE "tangent"
         IN  IF m # mode
             THEN segment_loop(v, k_threshold, i + 1, i, m,
                               Append(kinds, <<start, i, mode>>))
             ELSE segment_loop(v, k_threshold, i + 1, start, mode, kinds)

\* segment_by_curvature without the append of the run left open by the loop
segment_by_curvature_open(v, k_threshold) ==
    IF Len(v) < 3 THEN << <<0, Len(v) - 1, "tangent">> >>
    ELSE segment_loop(v, k_threshold, 1, 0, "tangent", << >>)[1]

\* RoadLine.segment_by_curvature(k_threshold): runs <<start, end, kind>>
segment_by_curvature(v, k_threshold) ==
    IF Len(v) < 3 THEN << <<0, Len(v) - 1, "tangent">> >>
    ELSE LET l == segment_loop(v, k_threshold, 1, 0, "tangent", << >>)
         IN  Append(l[1], <<l[2], Len(v) - 1, l[3]>>)

----------------------------------------------------------------------------
(* GeometricConstraints                                                    *)

\* the table of min_radius_for_design: per road class, <<speed, radius in m>>
\* in the order of the dict
RadiusTable ==
    [highway   |-> << <<50, 120>>, <<60, 180>>, <<80, 360>>, <<100, 600>>, <<120, 900>> >>,
     arterial  |-> << <<40, 80>>, <<50, 120>>, <<60, 180>>, <<80, 300>> >>,
     collector |-> << <<30, 50>>, <<40, 80>>, <<50, 120>>, <<60, 160>> >>,
     local     |-> << <<20, 20>>, <<30, 40>>, <<40, 70>> >>]

\* min_radius_for_design that takes the first band of the class
min_radius_first_band(c) ==
    IF c.road_class \notin DOMAIN RadiusTable
    THEN Max(c.min_horizontal_radius, 30000)
    ELSE RadiusTable[c.road_class][1][2] * 1000

\* GeometricConstraints.min_radius_for_design, in mm: the first band (sorted
\* is stable) nearest to the design speed
min_radius_for_design(c) ==
    IF c.road_class \notin DOMAIN RadiusTable
    THEN Max(c.min_horizontal_radius, 30000)
    ELSE LET speeds == RadiusTable[c.road_class]
             dist(j) == Abs(speeds[j][1] - c.design_speed_kph)
             best == CHOOSE j \in 1..Len(speeds) :
                        /\ \A i \in 1..Len(speeds) : dist(j) <= dist(i)
                        /\ \A i \in 1..(j - 1) : dist(i) > dist(j)
         IN  speeds[best][2] * 1000

\* GeometricConstraints(): the dataclass defaults
DefaultConstraints ==
    [tolerance_horizontal_deviation |-> 50,
     tolerance_elevation_deviation  |-> 30,
     smoothing_factor               |-> 30,    \* hundredths
     road_class                     |-> "arterial",
     design_speed_kph               |-> 60,
     min_horizontal_radius          |-> 30000]

\* GeometryIdealizer(constraints): the constructor defaults
DefaultIdealizer ==
    [constraints      |-> DefaultConstraints,
     mode             |-> "conservative",
     k_threshold      |-> 800,
     max_xy_shift     |-> 80,
     tangent_rmse_tol |-> 25,
     curve_rmse_tol   |-> 30]

\* ComparisonEngine(station_step): the other constructor defaults
DefaultEngine(station_step) ==
    [station_step     |-> station_step,
     constraints      |-> DefaultConstraints,
     deadband_h       |-> 12,
     deadband_z       |-> 15,
     min_report_error |-> 15]

----------------------------------------------------------------------------
(* GeometryIdealizer                                                       *)

\* cap_shift without the cap
cap_shift_uncapped(dx, dy, cap) == <<dx, dy>>

\* a displacement <<dx, dy>> cut down to length cap when it is longer
cap_shift(dx, dy, cap) ==
    IF dx * dx + dy * dy > cap * cap
    THEN LET d == IsqrtUp(dx * dx + dy * dy)
         IN  <<Sign(dx) * ((Abs(dx) * cap) \div d), Sign(dy) * ((Abs(dy) * cap) \div d)>>
    ELSE <<dx, dy>>

\* gain / base_strength, in hundredths
gain_of(mode) == IF mode = "aggressive" THEN 60 ELSE 35

\* min_distance of _remove_near_duplicates, in mm
min_distance_of(mode) == IF mode = "aggressive" THEN 10 ELSE 5

RECURSIVE dedup_loop_previous(_, _, _, _)
\* the for loop that measures from the vertex before, kept or not
dedup_loop_previous(vertices, min_distance, i, cleaned) ==
    IF i > Len(vertices) - 1 THEN cleaned
    ELSE IF distance_3d(vertices[i + 1], vertices[i]) >= min_distance
         THEN dedup_loop_previous(vertices, min_distance, i + 1,
                                  Append(cleaned, vertices[i + 1]))
         ELSE dedup_loop_previous(vertices, min_distance, i + 1, cleaned)

RECURSIVE dedup_loop(_, _, _, _)
\* the for loop of _remove_near_duplicates from index i (0-based) on
dedup_loop(vertices, min_distance, i, cleaned) ==
    IF i > Len(vertices) - 1 THEN cleaned
    ELSE IF distance_3d(vertices[i + 1], Last(cleaned)) >= min_distance
         THEN dedup_loop(vertices, min_distance, i + 1, Append(cleaned, vertices[i + 1]))
         ELSE dedup_loop(vertices, min_distance, i + 1, cleaned)

\* GeometryIdealizer._remove_near_duplicates
_remove_near_duplicates(vertices, mode) ==
    IF Len(vertices) <= 2 THEN vertices
    ELSE LET cleaned == dedup_loop(vertices, min_distance_of(mode), 1, <<vertices[1]>>)
         IN  IF Len(cleaned) > 1 /\ Last(cleaned) # Last(vertices)
             THEN Append(cleaned, Last(vertices))
             ELSE cleaned

\* <<sum(xs) / len(xs), sum(ys) / len(ys)>>
centroid(pts) ==
    <<RoundDiv(SumSeq([i \in 1..Len(pts) |-> pts[i][1]]), Len(pts)),
      RoundDiv(SumSeq([i \in 1..Len(pts) |-> pts[i][2]]), Len(pts))>>

\* <<sxx, syy, sxy>> about the centre c
covariance(pts, c) ==
    <<SumSeq([i \in 1..Len(pts) |-> (pts[i][1] - c[1]) * (pts[i][1] - c[1])]),
      SumSeq([i \in 1..Len(pts) |-> (pts[i][2] - c[2]) * (pts[i][2] - c[2])]),
      SumSeq([i \in 1..Len(pts) |-> (pts[i][1] - c[1]) * (pts[i][2] - c[2])])>>

\* the principal direction theta = 0.5 * atan2(2 * sxy, sxx - syy) of the
\* covariance m, as <<a, b, h>> with cos(2 theta) = a / h and
\* sin(2 theta) = b / h; theta = 0.0 (sxx = syy and sxy = 0) is <<1, 0, 1>>
principal_direction(m) ==
    IF m[1] = m[2] /\ m[3] = 0 THEN <<1, 0, 1>>
    ELSE <<m[1] - m[2], 2 * m[3], Hypot(2 * m[3], m[1] - m[2])>>

\* c + ((p - c) . u) u for u = <<cos theta, sin theta>>: with the double
\* angle, c + <<vx (h + a) + vy b, vx b + vy (h - a)>> / (2 h)
project(p, c, dir) ==
    <<c[1] + RoundDiv((p[1] - c[1]) * (dir[3] + dir[1]) + (p[2] - c[2]) * dir[2],
                      2 * dir[3]),
      c[2] + RoundDiv((p[1] - c[1]) * dir[2] + (p[2] - c[2]) * (dir[3] - dir[1]),
                      2 * dir[3])>>

\* p moved by strength (hundredths) of the way to the target q in XY, by
\* at most max_xy_shift
nudge(p, q, strength, max_xy_shift) ==
    LET sh == cap_shift(RoundDiv((q[1] - p[1]) * strength, 100),
                        RoundDiv((q[2] - p[2]) * strength, 100),
                        max_xy_shift)
    IN  <<p[1] + sh[1], p[2] + sh[2], p[3]>>

\* the sum of the squares of the XY distances from pts[i] to q[i]
sum_sq_err(pts, q) ==
    SumSeq([i \in 1..Len(pts) |->
               (q[i][1] - pts[i][1]) * (q[i][1] - pts[i][1])
             + (q[i][2] - pts[i][2]) * (q[i][2] - pts[i][2])])

\* straighten_to that moves the first and the last point as well
straighten_to_all(pts, proj, idz) ==
    IF sum_sq_err(pts, proj) > idz.tangent_rmse_tol * idz.tangent_rmse_tol * Len(pts)
    THEN pts
    ELSE AsList([i \in 1..Len(pts) |->
                    nudge(pts[i], proj[i], gain_of(idz.mode), idz.max_xy_shift)])

\* the end of _straighten_tangent, from the projections proj on
straighten_to(pts, proj, idz) ==
    \* rmse > tangent_rmse_tol, squared and multiplied by n
    IF sum_sq_err(pts, proj) > idz.tangent_rmse_tol * idz.tangent_rmse_tol * Len(pts)
    THEN pts
    ELSE AsList([i \in 1..Len(pts) |->
                    IF i = 1 \/ i = Len(pts) THEN pts[i]
                    ELSE nudge(pts[i], proj[i], gain_of(idz.mode), idz.max_xy_shift)])

\* _straighten_tangent for the centre c
straighten_about(pts, c, dir, idz) ==
    straighten_to(pts, AsList([i \in 1..Len(pts) |-> project(pts[i], c, dir)]), idz)

\* _straighten_tangent for the centre c
straighten_fit(pts, c, idz) ==
    straighten_about(pts, c, principal_direction(covariance(pts, c)), idz)

\* GeometryIdealizer._straighten_tangent
_straighten_tangent(pts, idz) ==
    IF Len(pts) < 3 THEN pts ELSE straighten_fit(pts, centroid(pts), idz)

\* sum of the cross products of consecutive triples (cross() in
\* _regularize_curve)
turning(pts) ==
    SumSeq([j \in 1..(Len(pts) - 2) |->
               (pts[j + 1][1] - pts[j][1]) * (pts[j + 2][2] - pts[j + 1][2])
             - (pts[j + 1][2] - pts[j][2]) * (pts[j + 2][1] - pts[j + 1][1])])

\* <<Suu, Svv, Suv, Suuu + Suvv, Svvv + Svuu>> of the points about m
circle_moments(pts, m) ==
    <<SumSeq([i \in 1..Len(pts) |-> (pts[i][1] - m[1]) * (pts[i][1] - m[1])]),
      SumSeq([i \in 1..Len(pts) |-> (pts[i][2] - m[2]) * (pts[i][2] - m[2])]),
      SumSeq([i \in 1..Len(pts) |-> (pts[i][1] - m[1]) * (pts[i][2] - m[2])]),
      SumSeq([i \in 1..Len(pts) |->
                 (pts[i][1] - m[1]) * (pts[i][1] - m[1]) * (pts[i][1] - m[1])
               + (pts[i][1] - m[1]) * (pts[i][2] - m[2]) * (pts[i][2] - m[2])]),
      SumSeq([i \in 1..Len(pts) |->
                 (pts[i][2] - m[2]) * (pts[i][2] - m[2]) * (pts[i][2] - m[2])
               + (pts[i][2] - m[2]) * (pts[i][1] - m[1]) * (pts[i][1] - m[1])])>>

\* det = 2 * (Suu * Svv - Suv * Suv)
circle_det(s) == 2 * (s[1] * s[2] - s[3] * s[3])

\* the centre <<cx, cy>> = <<mx + uc, my + vc>> of the fitted circle
circle_centre(m, s, det) ==
    <<m[1] + DiffQuot(s[2], s[4], s[3], s[5], det),
      m[2] + DiffQuot(s[1], s[5], s[3], s[4], det)>>

\* hypot(x - cx, y - cy) of every point
radial(pts, c) ==
    AsList([i \in 1..Len(pts) |-> Hypot(pts[i][1] - c[1], pts[i][2] - c[2])])

\* the point of the circle (c, r) at the angle of p, which is at distance d > 0
on_circle(p, c, r, d) ==
    <<c[1] + DiffQuot(r, p[1] - c[1], 0, 0, d), c[2] + DiffQuot(r, p[2] - c[2], 0, 0, d)>>

\* the points nudged toward the circle (c, r), end points kept
nudged_to_circle(pts, c, r, D, idz) ==
    AsList([i \in 1..Len(pts) |->
               IF i = 1 \/ i = Len(pts) \/ D[i] = 0 THEN pts[i]
               ELSE nudge(pts[i], on_circle(pts[i], c, r, D[i]), gain_of(idz.mode),
                          idz.max_xy_shift)])

\* the sign check of _regularize_curve
keep_turning(pts, out) ==
    IF Sign(turning(pts)) * Sign(turning(out)) < 0 THEN pts ELSE out

\* circle_gates without the radius gate
circle_gates_any_radius(pts, c, r, D, idz) ==
    IF SumSeq([i \in 1..Len(pts) |-> (D[i] - r) * (D[i] - r)])
           > idz.curve_rmse_tol * idz.curve_rmse_tol * Len(pts)
    THEN pts
    ELSE keep_turning(pts, nudged_to_circle(pts, c, r, D, idz))

\* the design/quality gates of _regularize_curve for the circle (c, r)
circle_gates(pts, c, r, D, idz) ==
    \* rmse > curve_rmse_tol, squared and multiplied by n
    IF SumSeq([i \in 1..Len(pts) |-> (D[i] - r) * (D[i] - r)])
           > idz.curve_rmse_tol * idz.curve_rmse_tol * Len(pts)
    THEN pts
    \* r < min_R * 0.8
    ELSE IF r < (8 * min_radius_for_design(idz.constraints) + 9) \div 10 THEN pts
    ELSE keep_turning(pts, nudged_to_circle(pts, c, r, D, idz))

\* _regularize_curve from the distances D of the points to the centre c
circle_radius(pts, c, D, idz) ==
    circle_gates(pts, c, RoundDiv(SumSeq(D), Len(pts)), D, idz)

\* _regularize_curve from the centre c of the fitted circle
circle_about(pts, c, idz) == circle_radius(pts, c, radial(pts, c), idz)

\* _regularize_curve from the moment sums s about the mean m
circle_solve(pts, m, s, det, idz) ==
    IF det = 0 THEN pts ELSE circle_about(pts, circle_centre(m, s, det), idz)

\* _regularize_curve from the mean m
circle_fit(pts, m, s, idz) == circle_solve(pts, m, s, circle_det(s), idz)

\* GeometryIdealizer._regularize_curve
_regularize_curve(pts, idz) ==
    IF Len(pts) < 3 THEN pts
    ELSE circle_fit(pts, centroid(pts), circle_moments(pts, centroid(pts)), idz)

\* GeometryIdealizer._smooth_elevations_only: the blend moves z by
\* factor * (expected_z - z) with expected_z = (prev_z + next_z) / 2
_smooth_elevations_only(vertices, c) ==
    IF Len(vertices) < 3 THEN vertices
    ELSE
    LET n == Len(vertices)
        smoothing_factor == Max(30, c.smoothing_factor)
        smoothed(i) ==
            LET twice_dev == vertices[i - 1][3] + vertices[i + 1][3] - 2 * vertices[i][3]
            IN  IF Abs(twice_dev) < 2 * 10
                THEN <<vertices[i][1], vertices[i][2],
                       vertices[i][3] + RoundDiv(smoothing_factor * twice_dev, 200)>>
                ELSE vertices[i]
    IN  AsList([i \in 1..n |-> IF i = 1 \/ i = n THEN vertices[i] ELSE smoothed(i)])

RECURSIVE fix_runs_long(_, _, _, _, _)
\* fix_runs that takes no points from a run of fewer than 3 points
fix_runs_long(cleaned, segments, j, xy_fixed, idz) ==
    IF j > Len(segments) THEN xy_fixed
    ELSE LET chunk == SubSeq(cleaned, segments[j][1] + 1, segments[j][2] + 1)
             fixed == IF Len(chunk) < 3 THEN <<chunk[1]>>
                      ELSE IF segments[j][3] = "tangent"
                           THEN _straighten_tangent(chunk, idz)
                           ELSE _regularize_curve(chunk, idz)
         IN  fix_runs_long(cleaned, segments, j + 1, xy_fixed \o Tail(fixed), idz)

RECURSIVE fix_runs_whole(_, _, _, _, _)
\* the loop over the runs that appends every corrected run whole
fix_runs_whole(cleaned, segments, j, xy_fixed, idz) ==
    IF j > Len(segments) THEN xy_fixed
    ELSE LET chunk == SubSeq(cleaned, segments[j][1] + 1, segments[j][2] + 1)
             fixed == IF Len(chunk) < 3 THEN chunk
                      ELSE IF segments[j][3] = "tangent"
                           THEN _straighten_tangent(chunk, idz)
                           ELSE _regularize_curve(chunk, idz)
         IN  fix_runs_whole(cleaned, segments, j + 1,
                            IF j = 1 THEN fixed ELSE xy_fixed \o fixed, idz)

RECURSIVE fix_runs(_, _, _, _, _)
\* the for loop of idealize over segments[j..]
fix_runs(cleaned, segments, j, xy_fixed, idz) ==
    IF j > Len(segments) THEN xy_fixed
    ELSE LET chunk == SubSeq(cleaned, segments[j][1] + 1, segments[j][2] + 1)
             fixed == IF Len(chunk) < 3 THEN chunk
                      ELSE IF segments[j][3] = "tangent"
                           THEN _straighten_tangent(chunk, idz)
                           ELSE _regularize_curve(chunk, idz)
         IN  fix_runs(cleaned, segments, j + 1, xy_fixed \o Tail(fixed), idz)

\* GeometryIdealizer.idealize
idealize(line, idz) ==
    IF Len(line.vertices) < 3 THEN line
    ELSE LET cleaned == _remove_near_duplicates(line.vertices, idz.mode)
         IN  IF Len(cleaned) < 3
             THEN RoadLine(cleaned, MetaWith(line.meta, "idealized", TRUE))
             ELSE LET segments == segment_by_curvature(cleaned, idz.k_threshold)
                      xy_fixed == fix_runs(cleaned, segments, 1, <<cleaned[1]>>, idz)
                  IN  RoadLine(_smooth_elevations_only(xy_fixed, idz.constraints),
                               MetaWith(line.meta, "idealized", TRUE))

----------------------------------------------------------------------------
(* ComparisonEngine and ValidationReport                                   *)

\* math.pi, in milliradians
Pi == 3142

\* atan(num / den) in milliradians for 0 <= num <= den, den > 0, by
\* r * (pi / 4 + 0.273 * (1 - r)), which is within 4 mrad of the arc tangent
atan_ratio(num, den) ==
    LET r == (num * 1000) \div den
    IN  (r * (785000 + 273 * (1000 - r))) \div 1000000

\* the angle of <<|x|, |y|>> in the first quadrant, in milliradians
atan_quadrant(ay, ax) ==
    IF ay <= ax THEN atan_ratio(ay, ax) ELSE (Pi \div 2) - atan_ratio(ax, ay)

\* math.atan2(y, x) in milliradians, in (-Pi, Pi]
atan2(y, x) ==
    IF x = 0 /\ y = 0 THEN 0
    ELSE IF x >= 0 THEN Sign(y) * atan_quadrant(Abs(y), Abs(x))
    ELSE IF y >= 0 THEN Pi - atan_quadrant(Abs(y), Abs(x))
    ELSE atan_quadrant(Abs(y), Abs(x)) - Pi

\* RoadLine.bearing_at(index), index 0-based
bearing_at(v, index) ==
    atan2(v[index + 2][2] - v[index + 1][2], v[index + 2][1] - v[index + 1][1])

\* atan2 of the step from p1 to p2
bearing_between(p1, p2) == atan2(p2[2] - p1[2], p2[1] - p1[1])

\* RoadLine.bearing_at_station(station); eps = 0.1
bearing_at_station(v, station) ==
    IF station <= 0 THEN bearing_at(v, 0)
    ELSE IF station >= Last(stations(v)) THEN bearing_at(v, Len(v) - 2)
    ELSE bearing_between(sample_xy_at_station(v, Max(0, station - 100)),
                         sample_xy_at_station(v, Min(Last(stations(v)), station + 100)))

\* round(v / unit) for unit > 0 as Python rounds: to the nearest whole
\* number, a tie to the even one
RoundQuot(v, unit) ==
    LET q   == v \div unit
        rem == v - q * unit
    IN  IF rem < unit - rem THEN q
        ELSE IF rem > unit - rem THEN q + 1
        ELSE IF q % 2 = 0 THEN q ELSE q + 1

\* round(v, digits) of a value held in units of which 10^-digits holds
\* `unit`: the nearest multiple of unit
RoundTo(v, unit) == RoundQuot(v, unit) * unit

\* r rounding to whole metres instead of millimetres
r_length_metres(v) == RoundTo(v, 1000)

\* r = lambda v: round(v, 3) on a length held in mm
r_length(v) == RoundTo(v, 1)

\* r on a point
r_point(p) == <<r_length(p[1]), r_length(p[2]), r_length(p[3])>>

\* r on a curvature held in 1e-6 1/m
r_curvature(k) == RoundTo(k, 1000)

\* the curvature taken from the station s and the two points ahead of it
_curv_ahead_of_station(v, s, station_step) ==
    menger(sample_xy_at_station(v, s),
           sample_xy_at_station(v, Min(Last(stations(v)), s + Max(500, station_step))),
           sample_xy_at_station(v, Min(Last(stations(v)), s + 2 * Max(500, station_step))))

\* ComparisonEngine._curv_at_station(line, s); eps = max(0.5, station_step)
_curv_at_station(v, s, station_step) ==
    menger(sample_xy_at_station(v, Max(0, s - Max(500, station_step))),
           sample_xy_at_station(v, s),
           sample_xy_at_station(v, Min(Last(stations(v)), s + Max(500, station_step))))

\* the test of the radius that is made after rounding it to the millimetre
radius_ok_rounded(kB, min_R) ==
    IF kB = 0 THEN 1000000000 >= (min_R + 999) \div 1000
    ELSE RoundQuot(1000000000, Abs(kB)) >= min_R

\* R_ideal >= min_R, for R_ideal = 1e9 (m) if abs(kB) < 1e-9 else
\* 1.0 / abs(kB): 1e9 / |kB| mm is compared with the whole number min_R
radius_ok(kB, min_R) ==
    IF kB = 0 THEN 1000000000 >= (min_R + 999) \div 1000
    ELSE 1000000000 \div Abs(kB) >= min_R

\* r(R_ideal) as <<whole metres, millimetres>>: 1e9 m, or 1e9 / |kB| mm
\* rounded to the millimetre
r_radius(kB) ==
    IF kB = 0 THEN <<1000000000, 0>>
    ELSE <<RoundQuot(1000000000, Abs(kB)) \div 1000,
           RoundQuot(1000000000, Abs(kB)) % 1000>>

\* abs((brA - brB + math.pi) % (2*math.pi) - math.pi)
bearing_deviation(brA, brB) == Abs(((brA - brB + Pi) % (2 * Pi)) - Pi)

\* an error snapped to 0 inside its deadband
deadbanded(err, deadband) == IF err <= deadband THEN 0 ELSE err

\* the trivial-row test with its comparison turned around
trivial_row_inverted(h_err, z_err, min_report_error) ==
    h_err > min_report_error /\ z_err = 0

\* the trivial-row test with either condition
trivial_row_either(h_err, z_err, min_report_error) ==
    h_err < min_report_error \/ z_err = 0

\* the test that skips a trivial row
trivial_row(h_err, z_err, min_report_error) == h_err < min_report_error /\ z_err = 0

\* the Deviation compare appends at a station, from the two samples
deviation_at(eng, A, B, station, idx, oa, ib, kA, kB) ==
    [vertex_index     |-> idx,
     station          |-> r_length(station),
     original         |-> r_point(oa),
     ideal            |-> r_point(ib),
     horizontal_error |-> r_length(deadbanded(Hypot(oa[1] - ib[1], oa[2] - ib[2]),
                                              eng.deadband_h)),
     elevation_error  |-> r_length(deadbanded(Abs(oa[3] - ib[3]), eng.deadband_z)),
     curvature_dev    |-> r_curvature(Abs(kA - kB)),
     bearing_dev      |-> bearing_deviation(bearing_at_station(A, station),
                                            bearing_at_station(B, station)),
     design_radius    |-> r_radius(kB),
     design_ok        |-> radius_ok(kB, min_radius_for_design(eng.constraints))]

\* one pass of the while loop of compare: the row of the station, or none
row_at(eng, A, B, station, idx, oa, ib) ==
    IF trivial_row(deadbanded(Hypot(oa[1] - ib[1], oa[2] - ib[2]), eng.deadband_h),
                   deadbanded(Abs(oa[3] - ib[3]), eng.deadband_z),
                   eng.min_report_error)
    THEN << >>
    ELSE <<deviation_at(eng, A, B, station, idx, oa, ib,
                        _curv_at_station(A, station, eng.station_step),
                        _curv_at_station(B, station, eng.station_step))>>

RECURSIVE compare_loop_before_end(_, _, _, _, _, _, _, _)
\* the while loop of compare that stops before the station L
compare_loop_before_end(eng, A, B, L, step, station, idx, deviations) ==
    IF station < L
    THEN compare_loop_before_end(eng, A, B, L, step, station + step, idx + 1,
                                 deviations \o row_at(eng, A, B, station, idx,
                                                      sample_xy_at_station(A, station),
                                                      sample_xy_at_station(B, station)))
    ELSE deviations

RECURSIVE compare_loop(_, _, _, _, _, _, _, _)
\* the while loop of compare from (station, idx) on
compare_loop(eng, A, B, L, step, station, idx, deviations) ==
    IF station <= L
    THEN compare_loop(eng, A, B, L, step, station + step, idx + 1,
                      deviations \o row_at(eng, A, B, station, idx,
                                           sample_xy_at_station(A, station),
                                           sample_xy_at_station(B, station)))
    ELSE deviations

\* ValidationReport(original, ideal, deviations, constraints=None)
ValidationReport(original, ideal_line, deviations) ==
    [original |-> original, ideal |-> ideal_line, deviations |-> deviations,
     constraints |-> DefaultConstraints]

\* compare_resampled without the return on L <= 0
compare_resampled_unguarded(eng, original, ideal_line, A, B, step) ==
    ValidationReport(original, ideal_line,
        compare_loop(eng, A, B, Min(Last(stations(A)), Last(stations(B))),
                     step, 0, 0, << >>))

\* compare once both lines are resampled to A and B
compare_resampled(eng, original, ideal_line, A, B, step) ==
    IF Min(Last(stations(A)), Last(stations(B))) <= 0
    THEN ValidationReport(original, ideal_line, << >>)
    ELSE ValidationReport(original, ideal_line,
             compare_loop(eng, A, B, Min(Last(stations(A)), Last(stations(B))),
                          step, 0, 0, << >>))

\* ComparisonEngine.compare(original, ideal)
compare(eng, original, ideal_line) ==
    IF Len(ideal_line.vertices) < 2 \/ Len(original.vertices) < 2
    THEN ValidationReport(original, ideal_line, << >>)
    ELSE compare_resampled(eng, original, ideal_line,
             resample_by_station(original, Max(500, eng.station_step)).vertices,
             resample_by_station(ideal_line, Max(500, eng.station_step)).vertices,
             Max(500, eng.station_step))

\* severity that asks for both the design failure and the large error
severity_both(rep, d) ==
    IF d.horizontal_error <= 0 THEN "low"
    ELSE IF d.horizontal_error > 2 * rep.constraints.tolerance_horizontal_deviation
            /\ ~d.design_ok
         THEN "high"
    ELSE IF d.horizontal_error > rep.constraints.tolerance_horizontal_deviation
         THEN "medium"
    ELSE "low"

\* severity with the tolerance itself already "medium"
severity_closed(rep, d) ==
    IF d.horizontal_error <= 0 THEN "low"
    ELSE IF d.horizontal_error > 2 * rep.constraints.tolerance_horizontal_deviation
            \/ ~d.design_ok
         THEN "high"
    ELSE IF d.horizontal_error >= rep.constraints.tolerance_horizontal_deviation
         THEN "medium"
    ELSE "low"

\* ValidationReport.severity(d)
severity(rep, d) ==
    IF d.horizontal_error <= 0 THEN "low"
    ELSE IF d.horizontal_error > 2 * rep.constraints.tolerance_horizontal_deviation
            \/ ~d.design_ok
         THEN "high"
    ELSE IF d.horizontal_error > rep.constraints.tolerance_horizontal_deviation
         THEN "medium"
    ELSE "low"

\* [d.<f> for d in self.deviations]
column(devs, f) == AsList([i \in 1..Len(devs) |-> devs[i][f]])

RECURSIVE max_from(_, _, _)
\* max(a[i..]) given the maximum m before i
max_from(a, i, m) == IF i > Len(a) THEN m ELSE max_from(a, i + 1, Max(m, a[i]))

\* max(a) for a non-empty list
max(a) == max_from(a, 2, a[1])

\* sum(a)/len(a), rounded to the unit
mean(a) == RoundDiv(SumSeq(a), Len(a))

\* _std of summary: the sample standard deviation
_std(a) ==
    IF Len(a) < 2 THEN 0
    ELSE Isqrt(SumSeq([i \in 1..Len(a) |-> (a[i] - mean(a)) * (a[i] - mean(a))])
                   \div (Len(a) - 1))

\* sum(1 for s in severities if s == name)
severity_count(rep, name) ==
    Cardinality({i \in 1..Len(rep.deviations) : severity(rep, rep.deviations[i]) = name})

\* the summary of a report with deviations, from its four columns
summary_of(rep, hs, zs, curvs, bears) ==
    [count                |-> Len(rep.deviations),
     max_horizontal       |-> max(hs),
     mean_horizontal      |-> mean(hs),
     std_horizontal       |-> _std(hs),
     max_elevation        |-> max(zs),
     mean_elevation       |-> mean(zs),
     std_elevation        |-> _std(zs),
     max_curvature_dev    |-> max(curvs),
     mean_curvature_dev   |-> mean(curvs),
     max_bearing_dev_rad  |-> max(bears),
     mean_bearing_dev_rad |-> mean(bears),
     severity_counts      |-> [high   |-> severity_count(rep, "high"),
                               medium |-> severity_count(rep, "medium"),
                               low    |-> severity_count(rep, "low")]]

\* ValidationReport.summary
summary(rep) ==
    IF rep.deviations = << >>
    THEN [max_horizontal |-> 0, max_elevation |-> 0, count |-> 0]
    ELSE summary_of(rep, column(rep.deviations, "horizontal_error"),
                    column(rep.deviations, "elevation_error"),
                    column(rep.deviations, "curvature_dev"),
                    column(rep.deviations, "bearing_dev"))

----------------------------------------------------------------------------
(* Inputs                                                                  *)

\* most vertices of an input line
MaxVerts == 4

Origin == <<0, 0, 0>>

\* steps from a vertex to the next: along x, oblique with a grade (a 3-4-5
\* triangle), vertical only (no XY length), back along x, a short step
\* with a 1 mm offset
Deltas == {<<500, 0, 0>>, <<300, 400, 10>>, <<0, 0, 20>>, <<-500, 0, 0>>,
           <<250, 1, 5>>}

RECURSIVE Polylines(_, _)
\* the vertex lists of n vertices from Origin whose steps are in D
Polylines(n, D) ==
    IF n = 0 THEN {<< >>}
    ELSE IF n = 1 THEN {<<Origin>>}
    ELSE {Append(p, <<Last(p)[1] + d[1], Last(p)[2] + d[2], Last(p)[3] + d[3]>>) :
              p \in Polylines(n - 1, D), d \in D}

VertexLists == UNION {Polylines(n, Deltas) : n \in 0..MaxVerts}

\* the lines handed to compare: steps along x, oblique with a grade, and
\* vertical only
CompareDeltas == {<<500, 0, 0>>, <<300, 400, 10>>, <<0, 0, 20>>}

CompareVertexLists == UNION {Polylines(n, CompareDeltas) : n \in 0..MaxVerts}

\* most vertices of a line handed to the idealizer
MaxIdealizeVerts == 5

\* steps of a few millimetres: 1 mm (a near duplicate), just over 6 mm with
\* a rise, 7 mm across, and 5.4 mm backwards
SmallDeltas == {<<1, 0, 0>>, <<6, 0, 1>>, <<0, 7, 0>>, <<-5, -2, 0>>}

SmallVertexLists == UNION {Polylines(n, SmallDeltas) : n \in 0..MaxIdealizeVerts}

\* steps of 150 mm along x that go straight on or bend by 1 mm or by 2 mm
\* (with a rise): chords of arcs of some 10 to 25 m radius and straights
RunDeltas == {<<150, 0, 0>>, <<150, 1, 0>>, <<150, 2, 4>>}

RunVertexLists == UNION {Polylines(n, RunDeltas) : n \in 3..MaxIdealizeVerts}

\* GeometricConstraints(road_class="local", design_speed_kph=20)
LocalConstraints ==
    [DefaultConstraints EXCEPT !.road_class = "local", !.design_speed_kph = 20]

\* the idealizers: the defaults in both modes, a local road at 20 kph, a
\* local road with fit tolerances of 2 mm in aggressive mode, and one that
\* takes every vertex for a tangent (k_threshold 2000 1/m) and moves a
\* vertex by at most 2 mm; the last two with smoothing factors 0.8 and 0.1
Idealizers ==
    {DefaultIdealizer,
     [DefaultIdealizer EXCEPT !.mode = "aggressive"],
     [DefaultIdealizer EXCEPT !.constraints = LocalConstraints],
     [DefaultIdealizer EXCEPT !.constraints = [LocalConstraints EXCEPT
                                                   !.smoothing_factor = 80],
                              !.mode = "aggressive",
                              !.tangent_rmse_tol = 2, !.curve_rmse_tol = 2],
     [DefaultIdealizer EXCEPT !.constraints = [DefaultConstraints EXCEPT
                                                   !.smoothing_factor = 10],
                              !.mode = "aggressive", !.k_threshold = 2000000000,
                              !.max_xy_shift = 2]}

Modes == {"conservative", "aggressive"}

\* ComparisonEngine(station_step=...): below and above the floor of 0.5
EngineSteps == {200, 700}

\* offsets of an ideal line from the original: 20 mm across, 60 mm across
\* with 16 mm of height, 14 mm along with 20 mm of height
Offsets == {<<0, 20, 0>>, <<0, 60, 16>>, <<14, 0, 20>>}

\* an ideal line that bends by 6 mm over 0.5 m: a radius of 41.67 m
GentleBend == <<<<0, 0, 0>>, <<500, 0, 0>>, <<1000, 6, 0>>>>

\* other ideal lines: up to 3 vertices, steps of 500 mm along x or y, and
\* the gentle bend
OtherVertexLists ==
    UNION {Polylines(n, {<<500, 0, 0>>, <<0, 500, 30>>}) : n \in 0..3} \cup {GentleBend}

\* v with every vertex moved by d
Shifted(v, d) == [i \in 1..Len(v) |-> <<v[i][1] + d[1], v[i][2] + d[2], v[i][3] + d[3]>>]

\* v with its 1st, 3rd, ... vertex moved by d and the others left in place
Staggered(v, d) ==
    [i \in 1..Len(v) |->
        IF i % 2 = 1 THEN <<v[i][1] + d[1], v[i][2] + d[2], v[i][3] + d[3]>> ELSE v[i]]

\* the lines compared with the line `line`: the line itself, the line
\* offset, the line with every other vertex moved 60 mm across, and the
\* other lines
IdealsFor(line) ==
    {line}
    \cup {[id |-> "ideal", vertices |-> Staggered(line.vertices, <<0, 60, 0>>),
           meta |-> MetaWith(line.meta, "idealized", TRUE)]}
    \cup {[id |-> "ideal", vertices |-> Shifted(line.vertices, d),
           meta |-> MetaWith(line.meta, "idealized", TRUE)] : d \in Offsets}
    \cup {[id |-> "ideal", vertices |-> w,
           meta |-> MetaWith(line.meta, "idealized", TRUE)] : w \in OtherVertexLists}

\* horizontal errors and tolerances of the Deviations a report is built of
HorizontalErrors == {0, 20, 49, 50, 51, 99, 100, 101, 150}

Tolerances == {0, 20, 50}

\* Deviation(...) as a caller of ValidationReport may build it
Deviations ==
    {[vertex_index |-> 0, station |-> 0, original |-> Origin, ideal |-> Origin,
      horizontal_error |-> h, elevation_error |-> z, curvature_dev |-> 0,
      bearing_dev |-> 0,
      design_radius |-> IF ok THEN <<1000000000, 0>> ELSE <<0, 354>>,
      design_ok |-> ok] : h \in HorizontalErrors, z \in {0, 20}, ok \in BOOLEAN}

\* deviations that differ in every column that summary reads
MixedDeviations ==
    {[vertex_index |-> 1, station |-> 500, original |-> Origin, ideal |-> Origin,
      horizontal_error |-> h, elevation_error |-> h \div 2, curvature_dev |-> 10 * h,
      bearing_dev |-> h \div 10,
      design_radius |-> <<1000000000, 0>>, design_ok |-> TRUE] : h \in {0, 40, 75, 130}}

\* the deviation lists of a report: none, one, two or three deviations
DeviationLists ==
    {<< >>} \cup {<<d>> : d \in Deviations}
            \cup {<<d, e>> : d \in MixedDeviations, e \in MixedDeviations}
            \cup {<<d, e, f>> : d \in MixedDeviations, e \in MixedDeviations,
                                f \in {x \in Deviations : x.horizontal_error = 101
                                                          /\ x.elevation_error = 20}}

\* metadata as the reader supplies it (dxf_reader.py: handle, layer, type)
Metas == {NoMeta, [layer |-> "ROAD"]}

StationSteps == {300, 500, 5000}

\* max_len of split_by_max_length: below, at and above the 500 mm steps
MaxLens == {200, 500, 1000}

SampleStations == {-100, 0, 250, 500, 777, 1000, 6000}

\* 1e-4 (default of segment_by_curvature), 8e-4 (default of the idealizer),
\* 3.0, and 0 (every interior vertex is a curve)
KThresholds == {100, 800, 3000000, 0}

\* ComparisonEngine(station_step=-0.3, constraints=GeometricConstraints(
\* tolerance_horizontal_deviation=0.2, road_class="rural",
\* min_horizontal_radius=41.667))
ConfiguredEngine ==
    [DefaultEngine(-300) EXCEPT
         !.constraints = [DefaultConstraints EXCEPT
                              !.tolerance_horizontal_deviation = 200,
                              !.road_class = "rural",
                              !.min_horizontal_radius = 41667]]

\* road classes: the four of the table, and two that are not in it
RoadClasses == {"highway", "arterial", "collector", "local", "rural", ""}

\* design speeds in kph: on a band, between bands, halfway between two
\* bands, below and above every band
DesignSpeeds == {0, 20, 25, 30, 35, 45, 60, 70, 90, 110, 200}

\* fallback radii (min_horizontal_radius), in mm
FallbackRadii == {10000, 30000, 45000}

\* the GeometricConstraints a caller can configure
ConstraintSets ==
    {[DefaultConstraints EXCEPT !.road_class = rc, !.design_speed_kph = v,
                                !.min_horizontal_radius = fb] :
         rc \in RoadClasses, v \in DesignSpeeds, fb \in FallbackRadii}

NoLine == [id |-> "none", vertices |-> << >>, meta |-> NoMeta]

NoReport == [original |-> NoLine, ideal |-> NoLine, deviations |-> << >>,
             constraints |-> DefaultConstraints]

None == "None"

----------------------------------------------------------------------------
(* RoadLine operations, each a call on road_line                           *)

Init ==
    /\ road_line \in [id : {"line"}, vertices : VertexLists, meta : Metas]
    /\ ideal = NoLine
    /\ idealizer = DefaultIdealizer
    /\ engine = DefaultEngine(500)
    /\ report = NoReport
    /\ pc = "ready"
    /\ op = None
    /\ arg = None
    /\ ret = None

Return(name, a, r) ==
    /\ pc = "ready"
    /\ pc' = "returned"
    /\ op' = name
    /\ arg' = a
    /\ ret' = r
    /\ UNCHANGED <<road_line, ideal, idealizer, engine, report>>

Stations == Return("stations", None, stations(road_line.vertices))

Length == Return("length", None, length(road_line.vertices))

\* self.vertices[0] raises IndexError on a line without vertices
SplitByMaxLength ==
    \E max_len \in MaxLens :
        Return("split_by_max_length", max_len,
               IF Len(road_line.vertices) = 0 THEN "IndexError"
               ELSE split_by_max_length(road_line, max_len))

SampleXYAtStation ==
    \E station \in SampleStations :
        Return("sample_xy_at_station", station,
               IF Len(road_line.vertices) = 0 THEN "IndexError"
               ELSE sample_xy_at_station(road_line.vertices, station))

ResampleByStation ==
    \E step \in StationSteps :
        Return("resample_by_station", step, resample_by_station(road_line, step))

SegmentByCurvature ==
    \E k_threshold \in KThresholds :
        Return("segment_by_curvature", k_threshold,
               segment_by_curvature(road_line.vertices, k_threshold))

Next ==
    \/ Stations
    \/ Length
    \/ SplitByMaxLength
    \/ SampleXYAtStation
    \/ ResampleByStation
    \/ SegmentByCurvature

Spec == Init /\ [][Next]_vars

----------------------------------------------------------------------------
(* GeometryIdealizer operations on road_line                               *)

InitIdealize ==
    /\ road_line \in [id : {"line"}, vertices : SmallVertexLists \cup RunVertexLists,
                     meta : {[layer |-> "ROAD"]}]
    /\ ideal = NoLine
    /\ idealizer \in Idealizers
    /\ engine = DefaultEngine(500)
    /\ report = NoReport
    /\ pc = "ready"
    /\ op = None
    /\ arg = None
    /\ ret = None

Idealize == Return("idealize", None, idealize(road_line, idealizer))

RemoveNearDuplicates ==
    Return("_remove_near_duplicates", None,
           _remove_near_duplicates(road_line.vertices, idealizer.mode))

\* the fits, called on the vertices of road_line as one run
StraightenTangent ==
    Return("_straighten_tangent", None, _straighten_tangent(road_line.vertices, idealizer))

RegularizeCurve ==
    Return("_regularize_curve", None, _regularize_curve(road_line.vertices, idealizer))

SmoothElevationsOnly ==
    Return("_smooth_elevations_only", None,
           _smooth_elevations_only(road_line.vertices, idealizer.constraints))

NextIdealize ==
    \/ Idealize
    \/ RemoveNearDuplicates
    \/ StraightenTangent
    \/ RegularizeCurve
    \/ SmoothElevationsOnly

SpecIdealize == InitIdealize /\ [][NextIdealize]_vars

----------------------------------------------------------------------------
(* ComparisonEngine.compare(road_line, ideal), then ValidationReport calls *)

InitCompare ==
    /\ road_line \in [id : {"line"}, vertices : CompareVertexLists,
                     meta : {[layer |-> "ROAD"]}]
    /\ ideal \in IdealsFor(road_line)
    /\ idealizer = DefaultIdealizer
    /\ engine \in {DefaultEngine(st) : st \in EngineSteps} \cup {ConfiguredEngine}
    /\ report = NoReport
    /\ pc = "ready"
    /\ op = None
    /\ arg = None
    /\ ret = None

Compare ==
    /\ pc = "ready"
    /\ report = NoReport
    /\ pc' = "returned"
    /\ op' = "compare"
    /\ arg' = None
    /\ report' = compare(engine, road_line, ideal)
    /\ ret' = report'
    /\ UNCHANGED <<road_line, ideal, idealizer, engine>>

\* report.severity(report.deviations[i - 1])
Severity ==
    \E i \in 1..Len(report.deviations) :
        /\ op # "severity"
        /\ pc' = "returned"
        /\ op' = "severity"
        /\ arg' = i
        /\ ret' = severity(report, report.deviations[i])
        /\ UNCHANGED <<road_line, ideal, idealizer, engine, report>>

\* report.summary()
Summary ==
    /\ op # "summary"
    /\ pc' = "returned"
    /\ op' = "summary"
    /\ arg' = None
    /\ ret' = summary(report)
    /\ UNCHANGED <<road_line, ideal, idealizer, engine, report>>

NextCompare ==
    \/ Compare
    \/ Severity
    \/ (pc = "returned" /\ Summary)

SpecCompare == InitCompare /\ [][NextCompare]_vars

----------------------------------------------------------------------------
(* ValidationReport built by a caller                                      *)

InitReport ==
    /\ road_line = NoLine
    /\ ideal = NoLine
    /\ idealizer = DefaultIdealizer
    /\ engine = DefaultEngine(500)
    /\ report \in [original : {NoLine}, ideal : {NoLine},
                   deviations : DeviationLists,
                   constraints :
                       {[DefaultConstraints EXCEPT !.tolerance_horizontal_deviation = t] :
                            t \in Tolerances}]
    /\ pc = "ready"
    /\ op = None
    /\ arg = None
    /\ ret = None

NextReport == Severity \/ Summary

SpecReport == InitReport /\ [][NextReport]_vars

----------------------------------------------------------------------------
(* GeometricConstraints operations on idealizer.constraints                *)

InitConstraints ==
    /\ road_line = NoLine
    /\ ideal = NoLine
    /\ idealizer \in {[DefaultIdealizer EXCEPT !.constraints = c] : c \in ConstraintSets}
    /\ engine = DefaultEngine(500)
    /\ report = NoReport
    /\ pc = "ready"
    /\ op = None
    /\ arg = None
    /\ ret = None

MinRadiusForDesign ==
    Return("min_radius_for_design", None, min_radius_for_design(idealizer.constraints))

NextConstraints == MinRadiusForDesign

SpecConstraints == InitConstraints /\ [][NextConstraints]_vars

----------------------------------------------------------------------------
(* Claims about RoadLine                                                   *)

Returned(name) == pc = "returned" /\ op = name

\* C1: for a line of at least 2 vertices, stations() has one entry per
\* vertex, starts at 0 and never decreases
C1_StationsShape ==
    (Returned("stations") /\ Len(road_line.vertices) >= 2) =>
        /\ Len(ret) = Len(road_line.vertices)
        /\ ret[1] = 0
        /\ \A i \in 1..(Len(ret) - 1) : ret[i] <= ret[i + 1]

\* C1 witness: stations of a 4-vertex line whose segments get shorter and
\* that holds a segment of no XY length
C1_Witness ==
    /\ Returned("stations")
    /\ Len(road_line.vertices) = 4
    /\ ret[2] - ret[1] > ret[3] - ret[2]
    /\ ret[3] > ret[2]
    /\ ret[4] = ret[3]

\* C2: for a line of at least 2 vertices and a step > 0, the last vertex of
\* resample_by_station(step) is the last vertex of the line
C2_ResampleEndpoint ==
    (Returned("resample_by_station") /\ Len(road_line.vertices) >= 2) =>
        Last(ret.vertices) = Last(road_line.vertices)

\* C2 witness: a resampling of three or more points whose last uniform
\* station falls short of the end of the line and samples another point
C2_Witness ==
    /\ Returned("resample_by_station")
    /\ Len(road_line.vertices) >= 2
    /\ ret.id = "new"
    /\ Len(ret.vertices) >= 3
    /\ (Len(ret.vertices) - 1) * arg < Last(stations(road_line.vertices))
    /\ sample_xy_at_station(road_line.vertices, (Len(ret.vertices) - 1) * arg)
           # Last(road_line.vertices)

\* the runs of ret that hold vertex index i
RunsHolding(i) == {r \in 1..Len(ret) : ret[r][1] <= i /\ i <= ret[r][2]}

\* C4 as stated: every vertex index 0..n-1 of a line of n >= 2 vertices
\* belongs to exactly one run of segment_by_curvature
C4_RunsDisjoint ==
    (Returned("segment_by_curvature") /\ Len(road_line.vertices) >= 2) =>
        \A i \in 0..(Len(road_line.vertices) - 1) : Cardinality(RunsHolding(i)) = 1

\* C4 amended: the runs cover 0..n-1 without a gap, each run has
\* start < end, the first starts at 0, the last ends at n-1, and each run
\* starts at the index the run before it ends at: that boundary index
\* belongs to both runs, every other index to exactly one
C4_RunsChained ==
    (Returned("segment_by_curvature") /\ Len(road_line.vertices) >= 2) =>
        LET n == Len(road_line.vertices)
        IN  /\ Len(ret) >= 1
            /\ ret[1][1] = 0
            /\ Last(ret)[2] = n - 1
            /\ \A r \in 1..Len(ret) : ret[r][1] < ret[r][2]
            /\ \A r \in 1..(Len(ret) - 1) : ret[r + 1][1] = ret[r][2]
            /\ \A i \in 0..(n - 1) :
                   Cardinality(RunsHolding(i)) =
                       IF \E r \in 1..(Len(ret) - 1) : ret[r][2] = i THEN 2 ELSE 1

\* C4 witness: a segmentation into three runs
C4_Witness ==
    /\ Returned("segment_by_curvature")
    /\ Len(road_line.vertices) >= 4
    /\ Len(ret) = 3

\* C12: on a line without vertices, stations, length, sample_xy_at_station,
\* resample_by_station and split_by_max_length end in a failure and return
\* no value
C12_ZeroVerticesFail ==
    (pc = "returned" /\ Len(road_line.vertices) = 0
        /\ op \in {"stations", "length", "sample_xy_at_station",
                   "resample_by_station", "split_by_max_length"}) =>
        ret = "IndexError"

\* C14: resample_by_station and split_by_max_length return a RoadLine that
\* is another object than the line they are called on, and no call changes
\* the vertices or the metadata of that line
C14_NewObjectReturned ==
    /\ []((pc = "returned"
            /\ (op = "resample_by_station"
                  \/ (op = "split_by_max_length" /\ Len(road_line.vertices) > 0)))
          => ret.id # road_line.id)
    /\ [][road_line' = road_line]_vars


\* out is the point at station on segment lo (0-based) of v with stations S:
\* S[lo] <= station < S[lo + 1], and each coordinate is interpolated with
\* t = (station - S[lo]) / (S[lo + 1] - S[lo])
SampledOnSegment(v, S, station, lo, out) ==
    /\ 0 <= lo /\ lo + 2 <= Len(v)
    /\ S[lo + 1] <= station /\ station < S[lo + 2]
    /\ \A k \in 1..3 :
           out[k] = v[lo + 1][k]
                      + RoundDiv((v[lo + 2][k] - v[lo + 1][k]) * (station - S[lo + 1]),
                                 S[lo + 2] - S[lo + 1])

ResampledInto(v, step, n, out) ==
    /\ Len(out) = n + 1
    /\ \A k \in 0..(n - 1) : out[k + 1] = sample_xy_at_station(v, k * step)
    /\ out[n + 1] = Last(v)

\* C19 as stated: resample_by_station(step) returns exactly floor(L / step) + 1
\* vertices; vertex k, the last excepted, is the sample at k * step and the
\* last is the terminal vertex of the line.
C19_ResampleCountFloor ==
    (Returned("resample_by_station") /\ Len(road_line.vertices) >= 2) =>
        ResampledInto(road_line.vertices, arg,
                      Last(stations(road_line.vertices)) \div arg, ret.vertices)

\* C19, amended: on a line of 2D length L > 0, resample_by_station(step)
\* returns max(1, floor(L / step)) + 1 vertices; vertex k, the last
\* excepted, is the sample at k * step and the last is the terminal vertex of
\* the line.  On a line of 2D length 0 it returns the line as it is.
C19_ResampleCount ==
    (Returned("resample_by_station") /\ Len(road_line.vertices) >= 2) =>
        IF Last(stations(road_line.vertices)) > 0
        THEN ResampledInto(road_line.vertices, arg,
                           Max(1, Last(stations(road_line.vertices)) \div arg),
                           ret.vertices)
        ELSE ret = road_line

\* a line has been resampled with a step that does not divide its length
\* and leaves samples strictly inside it
C19_Witness ==
    /\ Returned("resample_by_station")
    /\ Len(road_line.vertices) >= 2
    /\ Last(stations(road_line.vertices)) > 2 * arg
    /\ Last(stations(road_line.vertices)) % arg # 0
    /\ Len(ret.vertices) = Last(stations(road_line.vertices)) \div arg + 1
    /\ ret.vertices[2] = sample_xy_at_station(road_line.vertices, arg)

\* the kind that the curvature at interior index i of v gives
KindAt(v, i, k_threshold) ==
    IF Abs(curvature_at(v, i)) >= k_threshold THEN "curve" ELSE "tangent"

\* the interior indices of v
Interior(v) == 1..(Len(v) - 2)

\* C20 as stated: for every run (start, end, kind) of segment_by_curvature
\* and every interior index i with start <= i <= end, |curvature_at(i)| is
\* below k_threshold when the kind is tangent and at least k_threshold when
\* it is curve.
C20_KindsMatchCurvature ==
    Returned("segment_by_curvature") =>
        \A r \in 1..Len(ret) :
            \A i \in Interior(road_line.vertices) \cap (ret[r][1]..ret[r][2]) :
                ret[r][3] = KindAt(road_line.vertices, i, arg)

\* C20, amended: the same for every interior index i with start <= i < end.
\* The end index of a run that is not the last is the index at which the
\* kind changes: it has the kind of the next run, which starts at it.
C20_KindsMatchBeforeEnd ==
    Returned("segment_by_curvature") =>
        /\ \A r \in 1..Len(ret) :
               \A i \in Interior(road_line.vertices) \cap (ret[r][1]..(ret[r][2] - 1)) :
                   ret[r][3] = KindAt(road_line.vertices, i, arg)
        /\ \A r \in 1..(Len(ret) - 1) :
               /\ ret[r][2] \in Interior(road_line.vertices)
               /\ ret[r][3] # KindAt(road_line.vertices, ret[r][2], arg)
               /\ ret[r + 1][3] = KindAt(road_line.vertices, ret[r][2], arg)

\* a line has been segmented into a curve run and a tangent run that both
\* hold an interior index before their end
C20_Witness ==
    /\ Returned("segment_by_curvature")
    /\ \E r \in 1..Len(ret) :
           /\ ret[r][3] = "curve"
           /\ Interior(road_line.vertices) \cap (ret[r][1]..(ret[r][2] - 1)) # {}
    /\ \E r \in 1..Len(ret) :
           /\ ret[r][3] = "tangent"
           /\ Interior(road_line.vertices) \cap (ret[r][1]..(ret[r][2] - 1)) # {}
----------------------------------------------------------------------------
(* Claims about GeometryIdealizer                                          *)

\* C3: idealize of a line of fewer than 3 vertices returns a line with the
\* same vertices whose metadata holds idealized = True
C3_ShortLineTagged ==
    (Returned("idealize") /\ Len(road_line.vertices) < 3) =>
        /\ ret.vertices = road_line.vertices
        /\ "idealized" \in DOMAIN ret.meta
        /\ ret.meta["idealized"] = TRUE

\* the square of the 3D distance between vertices i and i + 1 of v (1-based)
GapSq(v, i) ==
    (v[i + 1][1] - v[i][1]) * (v[i + 1][1] - v[i][1])
  + (v[i + 1][2] - v[i][2]) * (v[i + 1][2] - v[i][2])
  + (v[i + 1][3] - v[i][3]) * (v[i + 1][3] - v[i][3])

\* a 5-vertex line with one pair of consecutive vertices 1 mm apart and all
\* other consecutive vertices more than 5 mm apart
OneDuplicatePair(v) ==
    /\ Len(v) = 5
    /\ \E i \in 1..4 :
           /\ GapSq(v, i) = 1
           /\ \A j \in (1..4) \ {i} : GapSq(v, j) > 25

\* C6: conservative idealize of a 5-vertex line with one 1 mm pair returns
\* at most 4 vertices, the first and the last those of the input
C6_DuplicateRemoved ==
    (Returned("idealize") /\ idealizer.mode = "conservative"
                          /\ OneDuplicatePair(road_line.vertices)) =>
        /\ Len(ret.vertices) <= 4
        /\ ret.vertices[1] = road_line.vertices[1]
        /\ Last(ret.vertices) = Last(road_line.vertices)

\* C7: in both modes the result of _remove_near_duplicates on at least 2
\* vertices begins with the first and ends with the last vertex of the input
C7_EndsKept ==
    (Returned("_remove_near_duplicates") /\ Len(road_line.vertices) >= 2) =>
        /\ Len(ret) >= 1
        /\ ret[1] = road_line.vertices[1]
        /\ Last(ret) = Last(road_line.vertices)

\* the projections of the run pts on the line through c with direction dir
RunProjection(pts, c, dir) == AsList([i \in 1..Len(pts) |-> project(pts[i], c, dir)])

\* the projections of the run pts on its least-squares line through c
FitProjection(pts, c) == RunProjection(pts, c, principal_direction(covariance(pts, c)))

\* the tangent gate: rmse > tangent_rmse_tol
TangentRmseFails(pts, idz) ==
    /\ Len(pts) >= 3
    /\ sum_sq_err(pts, FitProjection(pts, centroid(pts)))
           > idz.tangent_rmse_tol * idz.tangent_rmse_tol * Len(pts)

\* the centre of the circle fit of pts
FitCentre(pts) ==
    circle_centre(centroid(pts), circle_moments(pts, centroid(pts)),
                  circle_det(circle_moments(pts, centroid(pts))))

\* abs(det) < 1e-12
CircleSingular(pts) == circle_det(circle_moments(pts, centroid(pts))) = 0

\* rmse > curve_rmse_tol, for the distances D to the centre and the radius r
CircleRmseFails(D, r, idz) ==
    SumSeq([i \in 1..Len(D) |-> (D[i] - r) * (D[i] - r)])
        > idz.curve_rmse_tol * idz.curve_rmse_tol * Len(D)

\* r < min_R * 0.8
CircleRadiusFails(r, idz) ==
    10 * Min(r, 100000000) < 8 * min_radius_for_design(idz.constraints)

\* sgn_data * sgn_fit < 0
CircleSignFlips(pts, c, D, r, idz) ==
    Sign(turning(pts)) * Sign(turning(nudged_to_circle(pts, c, r, D, idz))) < 0

\* one of the gates after the fit fails
CircleFitRejected(pts, c, D, r, idz) ==
    \/ CircleRmseFails(D, r, idz)
    \/ CircleRadiusFails(r, idz)
    \/ CircleSignFlips(pts, c, D, r, idz)

CircleFitRejectedFrom(pts, c, D, idz) ==
    CircleFitRejected(pts, c, D, RoundDiv(SumSeq(D), Len(pts)), idz)

CircleFitRejectedAbout(pts, c, idz) == CircleFitRejectedFrom(pts, c, radial(pts, c), idz)

\* one of the gates of _regularize_curve fails for the run pts
CircleGateFails(pts, idz) ==
    /\ Len(pts) >= 3
    /\ CircleSingular(pts) \/ CircleFitRejectedAbout(pts, FitCentre(pts), idz)

\* the gate that idealize applies to a run of the given kind
RunGateFails(chunk, kind, idz) ==
    IF kind = "tangent" THEN TangentRmseFails(chunk, idz) ELSE CircleGateFails(chunk, idz)

\* run j of runs is rejected by its gate
RunRejected(cleaned, runs, j, idz) ==
    /\ runs[j][2] - runs[j][1] >= 2
    /\ RunGateFails(SubSeq(cleaned, runs[j][1] + 1, runs[j][2] + 1), runs[j][3], idz)

\* every rejected run of cleaned keeps its points, in order, in out
RejectedRunsKept(cleaned, runs, out, idz) ==
    \A j \in 1..Len(runs) :
        RunRejected(cleaned, runs, j, idz)
            => \A i \in (runs[j][1] + 1)..(runs[j][2] + 1) :
                   out[i][1] = cleaned[i][1] /\ out[i][2] = cleaned[i][2]

\* the points of out have the elevations of the points of smoothed
SameElevations(out, smoothed) ==
    Len(out) = Len(smoothed) /\ \A i \in 1..Len(out) : out[i][3] = smoothed[i][3]

\* out is a full result of idealize for the de-duplicated vertices cleaned
IdealizeWentOn(cleaned, out, line, idz) ==
    /\ out.id = "new"
    /\ out.meta = MetaWith(line.meta, "idealized", TRUE)
    /\ Len(out.vertices) = Len(cleaned)
    /\ SameElevations(out.vertices, _smooth_elevations_only(cleaned, idz.constraints))
    /\ RejectedRunsKept(cleaned, segment_by_curvature(cleaned, idz.k_threshold),
                        out.vertices, idz)

\* C13: a run whose fit gate fails (tangent RMSE above the tolerance; circle
\* fit singular, circle RMSE above the tolerance, radius below 0.8 times
\* min_radius_for_design(), turning sign flipped) is returned point for point
\* as it was given, and idealize still returns a RoadLine in which the other
\* runs and the elevation smoothing have been processed.
C13_RejectedRunUntouched ==
    /\ (Returned("_straighten_tangent")
          /\ TangentRmseFails(road_line.vertices, idealizer))
         => ret = road_line.vertices
    /\ (Returned("_regularize_curve")
          /\ CircleGateFails(road_line.vertices, idealizer))
         => ret = road_line.vertices
    /\ (Returned("idealize")
          /\ Len(_remove_near_duplicates(road_line.vertices, idealizer.mode)) >= 3)
         => IdealizeWentOn(_remove_near_duplicates(road_line.vertices, idealizer.mode),
                           ret, road_line, idealizer)

\* idealize has returned for a line with a rejected run, and the result
\* differs from the de-duplicated input elsewhere
C13_Witness ==
    /\ Returned("idealize")
    /\ Len(_remove_near_duplicates(road_line.vertices, idealizer.mode)) >= 3
    /\ \E j \in 1..Len(segment_by_curvature(
                          _remove_near_duplicates(road_line.vertices, idealizer.mode),
                          idealizer.k_threshold)) :
           RunRejected(_remove_near_duplicates(road_line.vertices, idealizer.mode),
                       segment_by_curvature(
                           _remove_near_duplicates(road_line.vertices, idealizer.mode),
                           idealizer.k_threshold),
                       j, idealizer)
    /\ ret.vertices # _remove_near_duplicates(road_line.vertices, idealizer.mode)


\* the bands of the table for the road class of c
BandsOf(c) == {RadiusTable[c.road_class][j] : j \in 1..Len(RadiusTable[c.road_class])}

\* C15: min_radius_for_design returns, for a class of the table, the radius
\* of a band whose speed is nearest to the design speed (20 m for local at
\* 20 kph, which makes the idealizer's gate of 0.8 times it 16 m); for any
\* other class it returns max(min_horizontal_radius, 30.0).
C15_NearestBandOrFallback ==
    Returned("min_radius_for_design") =>
        /\ idealizer.constraints.road_class \in {"highway", "arterial", "collector", "local"}
             => \E b \in BandsOf(idealizer.constraints) :
                    /\ ret = b[2] * 1000
                    /\ \A o \in BandsOf(idealizer.constraints) :
                           Abs(b[1] - idealizer.constraints.design_speed_kph)
                               <= Abs(o[1] - idealizer.constraints.design_speed_kph)
        /\ (idealizer.constraints.road_class = "local"
              /\ idealizer.constraints.design_speed_kph = 20)
             => ret = 20000 /\ 8 * ret = 10 * 16000
        /\ idealizer.constraints.road_class \notin {"highway", "arterial", "collector", "local"}
             => ret = Max(idealizer.constraints.min_horizontal_radius, 30000)

\* the radius has been looked up for a speed that is nearer to a later band
\* of its class than to the first
C15_Witness ==
    /\ Returned("min_radius_for_design")
    /\ idealizer.constraints.road_class = "collector"
    /\ idealizer.constraints.design_speed_kph = 45
    /\ ret = 80000


\* the square of the XY distance of p and q
XYDistSq(p, q) == (p[1] - q[1]) * (p[1] - q[1]) + (p[2] - q[2]) * (p[2] - q[2])

\* the runs that hold index i (0-based) strictly between their ends
RunsCorrecting(runs, i) == {r \in 1..Len(runs) : runs[r][1] < i /\ i < runs[r][2]}

\* out has the vertices of cleaned, each at most cap away in XY, each
\* strictly inside at most one of the runs, and in place when inside none
ShiftsWithin(cleaned, runs, out, cap) ==
    /\ Len(out) = Len(cleaned)
    /\ \A i \in 1..Len(cleaned) :
           /\ XYDistSq(out[i], cleaned[i]) <= cap * cap
           /\ Cardinality(RunsCorrecting(runs, i - 1)) <= 1
           /\ RunsCorrecting(runs, i - 1) = {} => XYDistSq(out[i], cleaned[i]) = 0

\* C21: every vertex that survives _remove_near_duplicates is in the output
\* of idealize at an XY distance of at most max_xy_shift from where it was,
\* in both modes, and is corrected by at most one run.
C21_ShiftBounded ==
    (Returned("idealize") /\ Len(road_line.vertices) >= 3) =>
        ShiftsWithin(_remove_near_duplicates(road_line.vertices, idealizer.mode),
                     segment_by_curvature(
                         _remove_near_duplicates(road_line.vertices, idealizer.mode),
                         idealizer.k_threshold),
                     ret.vertices, idealizer.max_xy_shift)

\* idealize has moved a vertex by the whole of max_xy_shift, and in the other
\* direction of the plane not at all
C21_Witness ==
    /\ Returned("idealize")
    /\ Len(ret.vertices) >= 3
    /\ Len(ret.vertices) = Len(_remove_near_duplicates(road_line.vertices, idealizer.mode))
    /\ \E i \in 1..Len(ret.vertices) :
           XYDistSq(ret.vertices[i],
                    _remove_near_duplicates(road_line.vertices, idealizer.mode)[i])
               = idealizer.max_xy_shift * idealizer.max_xy_shift

\* the first and the last vertex of every run are in out where they are in
\* cleaned
RunEndsKept(cleaned, runs, out) ==
    \A r \in 1..Len(runs) :
        /\ XYDistSq(out[runs[r][1] + 1], cleaned[runs[r][1] + 1]) = 0
        /\ XYDistSq(out[runs[r][2] + 1], cleaned[runs[r][2] + 1]) = 0

\* C22: the per-run correction never moves the first or the last vertex of a
\* run, whether the fit of the run is accepted or rejected, a vertex that
\* ends one run and starts the next included.
C22_RunEndsFixed ==
    /\ (Returned("_straighten_tangent") \/ Returned("_regularize_curve"))
         => \/ ret = road_line.vertices
            \/ /\ Len(ret) = Len(road_line.vertices)
               /\ ret[1] = road_line.vertices[1]
               /\ Last(ret) = Last(road_line.vertices)
    /\ (Returned("idealize")
          /\ Len(_remove_near_duplicates(road_line.vertices, idealizer.mode)) >= 3)
         => /\ Len(ret.vertices)
                 = Len(_remove_near_duplicates(road_line.vertices, idealizer.mode))
            /\ RunEndsKept(_remove_near_duplicates(road_line.vertices, idealizer.mode),
                           segment_by_curvature(
                               _remove_near_duplicates(road_line.vertices, idealizer.mode),
                               idealizer.k_threshold),
                           ret.vertices)

\* idealize has returned for a line of two or more runs, one of which had a
\* vertex moved
C22_Witness ==
    /\ Returned("idealize")
    /\ Len(_remove_near_duplicates(road_line.vertices, idealizer.mode)) >= 3
    /\ Len(segment_by_curvature(
               _remove_near_duplicates(road_line.vertices, idealizer.mode),
               idealizer.k_threshold)) >= 2
    /\ \E i \in 1..Len(ret.vertices) :
           XYDistSq(ret.vertices[i],
                    _remove_near_duplicates(road_line.vertices, idealizer.mode)[i]) > 0

\* twice the difference of the average elevation of the neighbours of
\* vertex i and its own elevation
TwiceOff(v, i) == v[i - 1][3] + v[i + 1][3] - 2 * v[i][3]

\* out is v with the elevation of every interior vertex that is less than
\* 10 mm off the average of its neighbours blended toward it by f hundredths
SmoothedBy(v, out, f) ==
    /\ Len(out) = Len(v)
    /\ \A i \in 1..Len(v) :
           /\ out[i][1] = v[i][1] /\ out[i][2] = v[i][2]
           /\ out[i][3] = IF 1 < i /\ i < Len(v) /\ Abs(TwiceOff(v, i)) < 20
                          THEN v[i][3] + RoundDiv(f * TwiceOff(v, i), 200)
                          ELSE v[i][3]

\* C23: _smooth_elevations_only blends the elevation of every interior
\* vertex that is less than 0.01 off the average of its neighbours toward
\* that average by the configured smoothing factor, whatever it is in
\* [0, 1], and changes nothing else.
C23_SmoothedByConfiguredFactor ==
    Returned("_smooth_elevations_only") =>
        SmoothedBy(road_line.vertices, ret, idealizer.constraints.smoothing_factor)

\* the runs of fewer than 3 points
ShortRuns(runs) == {r \in 1..Len(runs) : runs[r][2] - runs[r][1] < 2}

\* C24 as stated: every vertex of a run of fewer than 3 points is in the
\* output of idealize with the x, y and z it had.
C24_ShortRunsUnmodified ==
    (Returned("idealize")
       /\ Len(_remove_near_duplicates(road_line.vertices, idealizer.mode)) >= 3) =>
        \A r \in ShortRuns(segment_by_curvature(
                               _remove_near_duplicates(road_line.vertices, idealizer.mode),
                               idealizer.k_threshold)) :
            \A i \in (segment_by_curvature(
                          _remove_near_duplicates(road_line.vertices, idealizer.mode),
                          idealizer.k_threshold)[r][1] + 1)
                     ..(segment_by_curvature(
                          _remove_near_duplicates(road_line.vertices, idealizer.mode),
                          idealizer.k_threshold)[r][2] + 1) :
                ret.vertices[i]
                    = _remove_near_duplicates(road_line.vertices, idealizer.mode)[i]

\* the vertices of the short runs of cleaned are in out with their x and y,
\* and with the elevation they have in smoothed
ShortRunsKept(cleaned, runs, out, smoothed) ==
    /\ Len(out) = Len(cleaned)
    /\ \A r \in ShortRuns(runs) :
           \A i \in (runs[r][1] + 1)..(runs[r][2] + 1) :
               /\ out[i][1] = cleaned[i][1] /\ out[i][2] = cleaned[i][2]
               /\ out[i][3] = smoothed[i][3]

\* C24, amended: every vertex of a run of fewer than 3 points is in the
\* output of idealize with the x and y it had; its z is the one that the
\* elevation smoothing of the whole line gives it, which differs from the
\* input's when the vertex is an interior vertex of the line less than 0.01
\* off the average of its neighbours.
C24_ShortRunsKeepXY ==
    (Returned("idealize")
       /\ Len(_remove_near_duplicates(road_line.vertices, idealizer.mode)) >= 3) =>
        ShortRunsKept(_remove_near_duplicates(road_line.vertices, idealizer.mode),
                      segment_by_curvature(
                          _remove_near_duplicates(road_line.vertices, idealizer.mode),
                          idealizer.k_threshold),
                      ret.vertices,
                      _smooth_elevations_only(
                          _remove_near_duplicates(road_line.vertices, idealizer.mode),
                          idealizer.constraints))

\* idealize has returned for a line with a run of 2 points, one of them with
\* its elevation smoothed
C24_Witness ==
    /\ Returned("idealize")
    /\ Len(_remove_near_duplicates(road_line.vertices, idealizer.mode)) >= 3
    /\ Len(ret.vertices)
         = Len(_remove_near_duplicates(road_line.vertices, idealizer.mode))
    /\ \E r \in ShortRuns(segment_by_curvature(
                              _remove_near_duplicates(road_line.vertices, idealizer.mode),
                              idealizer.k_threshold)) :
           ret.vertices[segment_by_curvature(
                            _remove_near_duplicates(road_line.vertices, idealizer.mode),
                            idealizer.k_threshold)[r][2] + 1][3]
               # _remove_near_duplicates(road_line.vertices, idealizer.mode)[
                     segment_by_curvature(
                         _remove_near_duplicates(road_line.vertices, idealizer.mode),
                         idealizer.k_threshold)[r][2] + 1][3]

\* the runs tile the n vertices: the first starts at vertex 0, each of the
\* others at the end of the one before, and the last ends at vertex n - 1
RunsTile(runs, n) ==
    /\ Len(runs) >= 1
    /\ runs[1][1] = 0
    /\ runs[Len(runs)][2] = n - 1
    /\ \A r \in 1..Len(runs) : runs[r][1] <= runs[r][2]
    /\ \A r \in 1..(Len(runs) - 1) : runs[r + 1][1] = runs[r][2]

\* out has the vertices of cleaned, one for one and in their order, each
\* within cap of its place in the plane
OneForOne(cleaned, runs, out, cap) ==
    /\ RunsTile(runs, Len(cleaned))
    /\ Len(out) = Len(cleaned)
    /\ \A i \in 1..Len(cleaned) : XYDistSq(out[i], cleaned[i]) <= cap * cap

\* C28: for an input of 3 vertices or more the output of idealize has as
\* many vertices as _remove_near_duplicates leaves, in the same order; the
\* stitching of the runs neither repeats nor drops a vertex.
C28_OneVertexForOne ==
    (Returned("idealize") /\ Len(road_line.vertices) >= 3) =>
        IF Len(_remove_near_duplicates(road_line.vertices, idealizer.mode)) < 3
        THEN ret.vertices = _remove_near_duplicates(road_line.vertices, idealizer.mode)
        ELSE OneForOne(_remove_near_duplicates(road_line.vertices, idealizer.mode),
                       segment_by_curvature(
                           _remove_near_duplicates(road_line.vertices, idealizer.mode),
                           idealizer.k_threshold),
                       ret.vertices, idealizer.max_xy_shift)

\* idealize has returned a line of 3 runs or more, after the removal of a
\* near duplicate
C28_Witness ==
    /\ Returned("idealize")
    /\ Len(ret.vertices) >= 4
    /\ Len(ret.vertices) < Len(road_line.vertices)
    /\ Len(segment_by_curvature(ret.vertices, idealizer.k_threshold)) >= 3
    /\ Len(segment_by_curvature(
               _remove_near_duplicates(road_line.vertices, idealizer.mode),
               idealizer.k_threshold)) >= 3

\* C30: _remove_near_duplicates is idempotent, in both modes: applied to its
\* own result it returns that result, also when it has appended the last
\* vertex again at the end.
C30_RemovalIdempotent ==
    Returned("_remove_near_duplicates") =>
        _remove_near_duplicates(ret, idealizer.mode) = ret

\* _remove_near_duplicates has dropped a vertex and has returned 3 vertices
\* or more, the last of them nearer than min_distance to the one before
C30_Witness ==
    /\ Returned("_remove_near_duplicates")
    /\ Len(ret) >= 3
    /\ Len(ret) < Len(road_line.vertices)
    /\ distance_3d(ret[Len(ret)], ret[Len(ret) - 1]) < min_distance_of(idealizer.mode)
    /\ distance_3d(ret[Len(ret)], ret[Len(ret) - 1]) > 0
----------------------------------------------------------------------------
(* Claims about ComparisonEngine                                           *)

\* C5: compare of a line with itself yields a report without deviations
C5_SelfCompareEmpty ==
    (report # NoReport /\ op = "compare" /\ ideal.vertices = road_line.vertices) =>
        report.deviations = << >>

\* C5 witness: a line of at least 3 vertices and at least two steps of
\* length compared with itself, so that several stations were sampled
C5_Witness ==
    /\ Returned("compare")
    /\ ideal = road_line
    /\ Len(road_line.vertices) >= 3
    /\ Last(stations(resample_by_station(road_line,
                         Max(500, engine.station_step)).vertices))
           >= 2 * Max(500, engine.station_step)
    /\ report.deviations = << >>

\* C10: the deviations of a report of compare are in strictly increasing
\* order of station
C10_StationsIncrease ==
    (report # NoReport /\ op \in {"compare", "severity"}) =>
        \A i \in 1..(Len(report.deviations) - 1) :
            report.deviations[i].station < report.deviations[i + 1].station

\* C10 witness: a report of several deviations that skips a station
\* between two of them
C10_Witness ==
    /\ Returned("compare")
    /\ Len(report.deviations) >= 2
    /\ \E i \in 1..(Len(report.deviations) - 1) :
           report.deviations[i + 1].vertex_index > report.deviations[i].vertex_index + 1

\* L of compare: the lesser 2D length of the two lines as compare resamples
\* them
OverlapLength ==
    Min(Last(stations(resample_by_station(road_line,
                          Max(500, engine.station_step)).vertices)),
        Last(stations(resample_by_station(ideal,
                          Max(500, engine.station_step)).vertices)))

\* C11: compare returns a report without deviations when either line has
\* fewer than 2 vertices or the overlap length L is 0
C11_EmptyInputsEmptyReport ==
    (report # NoReport /\ op = "compare"
        /\ (Len(road_line.vertices) < 2 \/ Len(ideal.vertices) < 2
                \/ OverlapLength = 0)) =>
        /\ ret = report
        /\ report.original = road_line
        /\ report.ideal = ideal
        /\ report.deviations = << >>

\* C11 witness: two lines of at least 2 vertices each, 60 mm apart at
\* their first vertices, of which one has no 2D length
C11_Witness ==
    /\ Returned("compare")
    /\ Len(road_line.vertices) >= 2
    /\ Len(ideal.vertices) >= 2
    /\ OverlapLength = 0
    /\ Hypot(road_line.vertices[1][1] - ideal.vertices[1][1],
             road_line.vertices[1][2] - ideal.vertices[1][2]) >= 60
    /\ report.deviations = << >>


\* C17: the report that compare returns holds the GeometricConstraints the
\* engine was configured with, so that severity() and summary() classify
\* with the tolerance of that configuration.
C17_ReportHoldsEngineConstraints ==
    /\ Returned("compare") => ret.constraints = engine.constraints
    /\ (Returned("severity") /\ report.original = road_line)
         => ret = severity([report EXCEPT !.constraints = engine.constraints],
                           report.deviations[arg])

\* the horizontal and the elevation error of the points oa and ib after the
\* deadbands of eng
HorizontalAfter(oa, ib, eng) ==
    IF Hypot(oa[1] - ib[1], oa[2] - ib[2]) <= eng.deadband_h THEN 0
    ELSE Hypot(oa[1] - ib[1], oa[2] - ib[2])

ElevationAfter(oa, ib, eng) ==
    IF Abs(oa[3] - ib[3]) <= eng.deadband_z THEN 0 ELSE Abs(oa[3] - ib[3])

\* the deviations of devs for station number k
RowsOf(devs, k) == {i \in 1..Len(devs) : devs[i].vertex_index = k}

\* station number k has a row in devs exactly when its errors h and z after
\* the deadbands are not both trivial, and the row has these errors
RowWhenNotTrivial(devs, k, h, z, eng) ==
    /\ Cardinality(RowsOf(devs, k)) = IF h < eng.min_report_error /\ z = 0 THEN 0 ELSE 1
    /\ \A i \in RowsOf(devs, k) :
           /\ devs[i].horizontal_error = h
           /\ devs[i].elevation_error = z
           /\ h >= eng.min_report_error \/ z > eng.deadband_z
           /\ h > eng.deadband_h \/ z > eng.deadband_z

\* the rows of devs are those of the stations 0, step, ... up to L of the
\* resampled lines A and B
RowsWhenNotTrivial(devs, A, B, step, L, eng) ==
    \A k \in 0..(L \div step) :
        RowWhenNotTrivial(devs, k,
            HorizontalAfter(sample_xy_at_station(A, k * step),
                            sample_xy_at_station(B, k * step), eng),
            ElevationAfter(sample_xy_at_station(A, k * step),
                           sample_xy_at_station(B, k * step), eng),
            eng)

\* the two lines have 2 vertices or more and overlap over a positive length
Comparable ==
    Len(road_line.vertices) >= 2 /\ Len(ideal.vertices) >= 2 /\ OverlapLength > 0

RowsNumberedByStation(devs, step, L) ==
    /\ \A i \in 1..Len(devs) :
           /\ devs[i].vertex_index \in 0..(L \div step)
           /\ devs[i].station = devs[i].vertex_index * step
    /\ \A i \in 1..(Len(devs) - 1) : devs[i].vertex_index < devs[i + 1].vertex_index

RadiusAtLeast(radius, min_R) ==
    \/ radius[1] > min_R \div 1000
    \/ radius[1] = min_R \div 1000 /\ radius[2] >= min_R % 1000

\* the radius is 1e9 m at most
RadiusCapped(radius) == radius[1] < 1000000000 \/ radius = <<1000000000, 0>>

DesignOkBeforeRounding(d, kB, min_R) ==
    /\ RadiusCapped(d.design_radius)
    /\ kB = 0 => d.design_radius = <<1000000000, 0>> /\ d.design_ok
    /\ kB # 0 =>
           /\ d.design_radius[1] * 1000 + d.design_radius[2]
                  = RoundQuot(1000000000, Abs(kB))
           /\ d.design_ok <=> 1000000000 \div Abs(kB) >= min_R
    /\ d.design_ok => RadiusAtLeast(d.design_radius, min_R)
    /\ ~d.design_ok => ~RadiusAtLeast(d.design_radius, min_R + 1)

\* every Deviation of devs, for the resampled ideal line B
DesignOkOfRows(devs, B, eng) ==
    \A i \in 1..Len(devs) :
        DesignOkBeforeRounding(devs[i],
            _curv_at_station(B, devs[i].station, eng.station_step),
            min_radius_for_design(eng.constraints))

NoCurvatureAtStart(devs, A, B, eng) ==
    /\ _curv_at_station(A, 0, eng.station_step) = 0
    /\ _curv_at_station(B, 0, eng.station_step) = 0
    /\ \A i \in 1..Len(devs) :
           devs[i].station = 0 =>
               /\ devs[i].vertex_index = 0
               /\ devs[i].curvature_dev = 0
               /\ devs[i].design_radius = <<1000000000, 0>>
               /\ devs[i].design_ok

\* C29: at station 0 the curvature estimate is 0 on both lines, so a
\* Deviation at station 0 has curvature_dev 0, design_radius 1e9 and, with a
\* minimum radius of 1e9 or less, design_ok true.
C29_NoCurvatureAtStationZero ==
    (Returned("compare") /\ Comparable) =>
        NoCurvatureAtStart(report.deviations,
            resample_by_station(road_line, Max(500, engine.station_step)).vertices,
            resample_by_station(ideal, Max(500, engine.station_step)).vertices,
            engine)

\* compare has emitted a row at station 0 and a row at the next station
\* that fails the design radius, on an ideal line that bends at its second
\* vertex
C29_Witness ==
    /\ Returned("compare")
    /\ Comparable
    /\ Len(report.deviations) >= 2
    /\ report.deviations[1].station = 0
    /\ report.deviations[2].vertex_index = 1
    /\ ~report.deviations[2].design_ok
    /\ report.deviations[2].curvature_dev > 0
----------------------------------------------------------------------------
(* Claims about ValidationReport                                           *)

\* the entries of a full summary
SummaryKeys ==
    {"count", "max_horizontal", "mean_horizontal", "std_horizontal",
     "max_elevation", "mean_elevation", "std_elevation",
     "max_curvature_dev", "mean_curvature_dev",
     "max_bearing_dev_rad", "mean_bearing_dev_rad", "severity_counts"}

\* C16: summary() of every report, with or without deviations, has the
\* count, the maxima, means and standard deviations, and a severity tally
\* over high, medium and low that sums to the count.
C16_SummaryComplete ==
    Returned("summary") =>
        /\ SummaryKeys \subseteq DOMAIN ret
        /\ ret.count = Len(report.deviations)
        /\ DOMAIN ret.severity_counts = {"high", "medium", "low"}
        /\ ret.severity_counts.high + ret.severity_counts.medium
               + ret.severity_counts.low = ret.count

\* the Deviation severity was called with, and the horizontal tolerance
SeverityArg == report.deviations[arg]

HorizontalTolerance == report.constraints.tolerance_horizontal_deviation

\* C8 as stated: severity is "high" whenever design_ok is false, whatever
\* the horizontal error, and whenever the horizontal error exceeds twice the
\* horizontal tolerance
C8_HighAlways ==
    Returned("severity") =>
        ((~SeverityArg.design_ok
              \/ SeverityArg.horizontal_error > 2 * HorizontalTolerance)
            => ret = "high")

\* C8 amended: severity is "high" for a horizontal error above 0 when
\* design_ok is false or the error exceeds twice the horizontal tolerance;
\* for a horizontal error of 0 or less it is "low" whatever design_ok is
C8_HighWhenPositive ==
    Returned("severity") =>
        /\ (SeverityArg.horizontal_error > 0
                /\ (~SeverityArg.design_ok
                        \/ SeverityArg.horizontal_error > 2 * HorizontalTolerance))
               => ret = "high"
        /\ SeverityArg.horizontal_error <= 0 => ret = "low"

\* C8 witness: a design failure alone, with a positive horizontal error
\* within the tolerance, rated "high"
C8_Witness ==
    /\ Returned("severity")
    /\ ~SeverityArg.design_ok
    /\ SeverityArg.horizontal_error > 0
    /\ SeverityArg.horizontal_error <= HorizontalTolerance
    /\ ret = "high"

\* C9: with design_ok true and a horizontal tolerance above 0, severity is
\* "low" exactly for an error up to the tolerance, "medium" exactly for an
\* error above the tolerance and up to twice it, "high" exactly for an error
\* above twice the tolerance; 20 mm at a tolerance of 50 mm is "low"
C9_SeverityBands ==
    (Returned("severity") /\ SeverityArg.design_ok /\ HorizontalTolerance > 0) =>
        /\ ret = "low" <=> SeverityArg.horizontal_error <= HorizontalTolerance
        /\ ret = "medium" <=>
               /\ SeverityArg.horizontal_error > HorizontalTolerance
               /\ SeverityArg.horizontal_error <= 2 * HorizontalTolerance
        /\ ret = "high" <=> SeverityArg.horizontal_error > 2 * HorizontalTolerance
        /\ (SeverityArg.horizontal_error = 20 /\ HorizontalTolerance = 50) => ret = "low"

\* C9 witness: with design_ok true, an error of exactly twice the tolerance
\* of 50 mm rated "medium"
C9_Witness ==
    /\ Returned("severity")
    /\ SeverityArg.design_ok
    /\ HorizontalTolerance = 50
    /\ SeverityArg.horizontal_error = 2 * HorizontalTolerance
    /\ ret = "medium"

====
